---- MODULE Spec2Model ----
(***************************************************************************)
(* Model of neatpy/_NeatPy.py: the three element-wise cleaning functions   *)
(* to_integer, to_text and to_specialChr over a pandas Series.             *)
(*                                                                         *)
(* A character is a one-character TLA+ string; a non-ASCII character, and  *)
(* the grave accent, is written by its code point ("U+0663", "U+0060").    *)
(* A Python str is a sequence of characters.                               *)
(* A Series is a sequence of elements; an element is a record              *)
(* [t, s]: t = "str" with its characters in s, t = "null" for None/NaN,    *)
(* t = "num" for a Python number.  The Series is an object-dtype Series    *)
(* whose .str methods run Python's re module (pandas 1.x / 2.x).           *)
(***************************************************************************)
EXTENDS Integers, Sequences, FiniteSets, TLC

VARIABLES series, dtype, punct, keep, keep_num, history

vars == <<series, dtype, punct, keep, keep_num, history>>

----------------------------------------------------------------------------
(* Bounds of the explored inputs *)

MaxSeries == 2
MaxChars == 3
MaxKeep == 1
MaxCalls == 2

----------------------------------------------------------------------------
(* Generic sequence helpers *)

Range(f) == {f[i] : i \in DOMAIN f}

RECURSIVE Filter(_, _)
\* the characters of x that are members of the set S, in their order
Filter(x, S) ==
    IF x = <<>> THEN <<>>
    ELSE IF Head(x) \in S THEN <<Head(x)>> \o Filter(Tail(x), S)
    ELSE Filter(Tail(x), S)

RECURSIVE Delete(_, _)
\* x without the characters that are members of the set D
Delete(x, D) ==
    IF x = <<>> THEN <<>>
    ELSE IF Head(x) \in D THEN Delete(Tail(x), D)
    ELSE <<Head(x)>> \o Delete(Tail(x), D)

IndexOf(seq, c) == CHOOSE i \in DOMAIN seq : seq[i] = c

----------------------------------------------------------------------------
(* Characters *)

\* numbers = '0123456789'
numbers == <<"0", "1", "2", "3", "4", "5", "6", "7", "8", "9">>

\* string.punctuation
punctuation ==
    <<"!", "\"", "#", "$", "%", "&", "'", "(", ")", "*", "+", ",", "-", ".",
      "/", ":", ";", "<", "=", ">", "?", "@", "[", "\\", "]", "^", "_", "U+0060",
      "{", "|", "}", "~">>

ascii_lowercase ==
    <<"a", "b", "c", "d", "e", "f", "g", "h", "i", "j", "k", "l", "m",
      "n", "o", "p", "q", "r", "s", "t", "u", "v", "w", "x", "y", "z">>

ascii_uppercase ==
    <<"A", "B", "C", "D", "E", "F", "G", "H", "I", "J", "K", "L", "M",
      "N", "O", "P", "Q", "R", "S", "T", "U", "V", "W", "X", "Y", "Z">>

AsciiDigits == Range(numbers)
AsciiLetters == Range(ascii_lowercase) \cup Range(ascii_uppercase)
Whitespace == {" "}

\* Non-ASCII characters of the model: U+0663 ARABIC-INDIC DIGIT THREE
\* (category Nd, value 3), U+00B2 SUPERSCRIPT TWO (category No),
\* U+00E9 e-acute, and the four letters whose case mapping reaches ASCII:
\* U+0130 I-with-dot, U+0131 dotless i, U+017F long s, U+212A KELVIN SIGN.
UnicodeDecimals == {"U+0663"}
CaseFoldLetters == {"U+0130", "U+0131", "U+017F", "U+212A"}
NonAscii == UnicodeDecimals \cup CaseFoldLetters \cup {"U+00B2", "U+00E9"}

Chars ==
    AsciiDigits \cup AsciiLetters \cup Range(punctuation) \cup Whitespace
        \cup NonAscii

\* what the regex class \d matches on a str: every Unicode decimal digit
ReDigit == AsciiDigits \cup UnicodeDecimals

\* the value int() / float() give a decimal digit
DigitValue(c) == IF c = "U+0663" THEN 3 ELSE IndexOf(numbers, c) - 1

----------------------------------------------------------------------------
(* Elements, series and results *)

Str(s) == [t |-> "str", s |-> s]
None == [t |-> "null", s |-> <<>>]
Num == [t |-> "num", s |-> <<>>]

IsStr(e) == e.t = "str"

Ok(v) == [status |-> "ok", kind |-> "", val |-> v]
Error(k) == [status |-> "error", kind |-> k, val |-> <<>>]

RECURSIVE Sum(_, _)
\* lens[1] + ... + lens[n]
Sum(lens, n) == IF n = 0 THEN 0 ELSE Sum(lens, n - 1) + lens[n]

\* the series whose i-th element is of kind kinds[i] and, when text, holds
\* the next lens[i] characters of flat
Build(kinds, lens, flat) ==
    [i \in DOMAIN kinds |->
        IF kinds[i] = "str"
        THEN Str(SubSeq(flat, Sum(lens, i - 1) + 1, Sum(lens, i)))
        ELSE [t |-> kinds[i], s |-> <<>>]]

\* ser is a series of 1..MaxSeries elements, text over the alphabet A or
\* not text, holding at most MaxChars characters in all
IsInput(ser, A) ==
    \E k \in 1..MaxSeries :
        \E kinds \in [1..k -> {"str", "null", "num"}] :
            \E lens \in [1..k -> 0..MaxChars] :
                /\ Sum(lens, k) <= MaxChars
                /\ \A i \in 1..k : kinds[i] # "str" => lens[i] = 0
                /\ \E flat \in [1..Sum(lens, k) -> A] :
                      ser = Build(kinds, lens, flat)

NoKeep == [kind |-> "none", v |-> <<>>]

----------------------------------------------------------------------------
(* to_integer *)

\* series.str: the accessor is refused unless the Series has object dtype,
\* which a Series built from Python values has when it holds a str or holds
\* nothing but None.
StrAccessorOk(ser) ==
    \/ \E i \in DOMAIN ser : IsStr(ser[i])
    \/ \A i \in DOMAIN ser : ser[i].t = "null"

\* re.sub('[^0-9]', '', x)
RemoveNonDigits_AsciiOnly(x) == Filter(x, AsciiDigits)

\* re.sub('\D', '', x)
RemoveNonDigits(x) == Filter(x, ReDigit)

\* series.str.replace('\D', '', regex=True): a non-str element gives a null
StrReplace(ser) ==
    [i \in DOMAIN ser |->
        IF IsStr(ser[i]) THEN Str(RemoveNonDigits(ser[i].s)) ELSE None]

RECURSIVE ParseDigits(_)
\* int(s) of a non-empty string of decimal digits
ParseDigits(s) ==
    IF s = <<>> THEN 0
    ELSE 10 * ParseDigits(SubSeq(s, 1, Len(s) - 1)) + DigitValue(s[Len(s)])

\* a cast under which float('') is NaN
Castable_EmptyAsNaN(e, dt) ==
    IF IsStr(e) THEN e.s # <<>> \/ dt = "float" ELSE dt = "float"

\* a cast under which a null is castable to int
Castable_NullToInt(e, dt) ==
    IF IsStr(e) THEN e.s # <<>> ELSE TRUE

\* can one element of the object array be cast to dtype
Castable(e, dt) ==
    IF IsStr(e) THEN e.s # <<>> ELSE dt = "float"

\* the cast of one element: a null becomes NaN under float
CastElement(e, dt) ==
    IF IsStr(e) THEN [t |-> dt, n |-> ParseDigits(e.s)]
    ELSE [t |-> "nan", n |-> 0]

\* .astype(dtype): the first element that cannot be cast raises
AsType(ser, dt) ==
    IF \E i \in DOMAIN ser : ~Castable(ser[i], dt)
    THEN Error("ValueError")
    ELSE Ok([i \in DOMAIN ser |-> CastElement(ser[i], dt)])

to_integer(ser, dt) ==
    IF ~StrAccessorOk(ser) THEN Error("AttributeError")
    ELSE AsType(StrReplace(ser), dt)

----------------------------------------------------------------------------
(* to_text *)

RECURSIVE Replace(_, _)
\* str.replace(old, ''): s without the occurrences of the substring old,
\* found from the left and not overlapping
Replace(s, old) ==
    IF old = <<>> \/ Len(s) < Len(old) THEN s
    ELSE IF SubSeq(s, 1, Len(old)) = old
         THEN Replace(SubSeq(s, Len(old) + 1, Len(s)), old)
         ELSE <<Head(s)>> \o Replace(Tail(s), old)

RECURSIVE ReplaceAll(_, _)
\* for keep_str in keep: punctuation = punctuation.replace(keep_str, '')
ReplaceAll(s, olds) ==
    IF olds = <<>> THEN s
    ELSE ReplaceAll(Replace(s, Head(olds)), Tail(olds))

RECURSIVE PyStr(_)
\* str(n) of an int n >= 0
PyStr(n) ==
    IF n < 10 THEN <<numbers[n + 1]>>
    ELSE PyStr(n \div 10) \o <<numbers[(n % 10) + 1]>>

\* keep and keep_num are records [kind, v]: kind "none" for None, "scalar"
\* for a str / an int held as the one member of v, "list" for the list v.
KeepScalar(c) == [kind |-> "scalar", v |-> <<c>>]
KeepList(l) == [kind |-> "list", v |-> l]

\* if keep:  (None, '' and [] are false)
KeepTruthy(k) ==
    \/ k.kind = "scalar" /\ k.v[1] # <<>>
    \/ k.kind = "list" /\ k.v # <<>>

\* if keep_num:  (None, 0 and [] are false)
KeepNumTruthy(k) ==
    \/ k.kind = "scalar" /\ k.v[1] # 0
    \/ k.kind = "list" /\ k.v # <<>>

\* punctuation after the keep branch
KeptPunctuation(k) ==
    IF KeepTruthy(k) THEN ReplaceAll(punctuation, k.v) ELSE punctuation

\* numbers after the keep_num branch
KeptNumbers(k) ==
    IF KeepNumTruthy(k)
    THEN ReplaceAll(numbers, [i \in DOMAIN k.v |-> PyStr(k.v[i])])
    ELSE numbers

\* punct_numbers = punctuation + numbers if punct else numbers
punct_numbers(p, k, kn) ==
    IF p THEN KeptPunctuation(k) \o KeptNumbers(kn) ELSE KeptNumbers(kn)

\* x.translate(str.maketrans('', '', deleted))
Translate(x, deleted) == Delete(x, Range(deleted))

\* series.apply(f) for an f that needs a str: the first element that is
\* not a str raises the error err; fx[i] is what f gives for the i-th str
Apply(ser, fx, err) ==
    IF \E i \in DOMAIN ser : ~IsStr(ser[i]) THEN Error(err)
    ELSE Ok([i \in DOMAIN ser |-> Str(fx[i])])

to_text(ser, p, k, kn) ==
    LET deleted == punct_numbers(p, k, kn)
    IN  Apply(ser, [i \in DOMAIN ser |-> Translate(ser[i].s, deleted)],
              "AttributeError")

----------------------------------------------------------------------------
(* to_specialChr *)

\* the pattern without flags=re.IGNORECASE
SreLower_CaseSensitive(c) == c

\* the lower-case mapping the regex engine applies under re.IGNORECASE
SreLower(c) ==
    IF c \in Range(ascii_uppercase)
    THEN ascii_lowercase[IndexOf(ascii_uppercase, c)]
    ELSE IF c = "U+0130" THEN "i"
    ELSE IF c = "U+212A" THEN "k"
    ELSE c

\* re.compile('[a-z0-9]', flags=re.IGNORECASE): the class as compiled,
\* a-z and 0-9 with the case equivalents of i and s added
pattern ==
    Range(ascii_lowercase) \cup AsciiDigits \cup {"U+0131", "U+017F"}

PatternMatches(c) == SreLower(c) \in pattern

RECURSIVE ReSub_FirstMatchOnly(_)
\* re.sub(pattern, '', x, count=1)
ReSub_FirstMatchOnly(x) ==
    IF x = <<>> THEN <<>>
    ELSE IF PatternMatches(Head(x)) THEN Tail(x)
    ELSE <<Head(x)>> \o ReSub_FirstMatchOnly(Tail(x))

RECURSIVE ReSub(_)
\* re.sub(pattern, '', x)
ReSub(x) ==
    IF x = <<>> THEN <<>>
    ELSE IF PatternMatches(Head(x)) THEN ReSub(Tail(x))
    ELSE <<Head(x)>> \o ReSub(Tail(x))

to_specialChr(ser) ==
    Apply(ser, [i \in DOMAIN ser |-> ReSub(ser[i].s)], "TypeError")

----------------------------------------------------------------------------
(* The calls.  history holds one record per call made: the function called *)
(* and what the call gave, a Series (status "ok") or an exception.         *)

Called(f, r) == [op |-> f, out |-> r]

Last == history[Len(history)]

\* the argument of the next call: the series, or the Series the call before
\* returned
Argument == IF history = <<>> THEN series ELSE Last.out.val

CanCall ==
    /\ Len(history) < MaxCalls
    /\ history # <<>> => Last.op = "to_specialChr" /\ Last.out.status = "ok"

CallToInteger ==
    /\ history = <<>>
    /\ history' = <<Called("to_integer", to_integer(series, dtype))>>
    /\ UNCHANGED <<series, dtype, punct, keep, keep_num>>

CallToText ==
    /\ history = <<>>
    /\ history' = <<Called("to_text", to_text(series, punct, keep, keep_num))>>
    /\ UNCHANGED <<series, dtype, punct, keep, keep_num>>

CallToSpecialChr ==
    /\ CanCall
    /\ history' = Append(history, Called("to_specialChr", to_specialChr(Argument)))
    /\ UNCHANGED <<series, dtype, punct, keep, keep_num>>

ListsUpTo(S, n) == UNION {[1..i -> S] : i \in 0..n}

KeepOptions(S) ==
    {NoKeep} \cup {KeepScalar(c) : c \in S}
        \cup {KeepList(l) : l \in ListsUpTo(S, MaxKeep)}

\* every character of the model as a one-element series
SingleChars == {<<Str(<<c>>)>> : c \in Chars}

(* to_integer alone *)

IntegerAlphabet == {"0", "7", ".", "-", "a", " ", "U+0663"}

\* pd.Series(['123.45', '456.78', '789.0'])
IntegerExample ==
    << Str(<<"1", "2", "3", ".", "4", "5">>),
       Str(<<"4", "5", "6", ".", "7", "8">>),
       Str(<<"7", "8", "9", ".", "0">>) >>

InitInteger ==
    /\ \/ IsInput(series, IntegerAlphabet)
       \/ series \in SingleChars \cup {IntegerExample}
    /\ dtype \in {"int", "float"}
    /\ punct = TRUE
    /\ keep = NoKeep
    /\ keep_num = NoKeep
    /\ history = <<>>

NextInteger == CallToInteger

SpecInteger == InitInteger /\ [][NextInteger]_vars

(* to_text alone *)

TextAlphabet == {"0", "2", "!", "o", " "}
KeepChars == {<<"!">>, <<"o">>, <<"2">>}
KeepNums == {0, 2}

\* pd.Series(['Hello, 123!', 'World456', 'Python'])
TextExample ==
    << Str(<<"H", "e", "l", "l", "o", ",", " ", "1", "2", "3", "!">>),
       Str(<<"W", "o", "r", "l", "d", "4", "5", "6">>),
       Str(<<"P", "y", "t", "h", "o", "n">>) >>

\* keep=['o', '5'], keep_num=2
ExampleKeep == KeepList(<< <<"o">>, <<"5">> >>)
ExampleKeepNum == KeepScalar(2)

InitText ==
    /\ \/ IsInput(series, TextAlphabet)
       \/ series \in SingleChars \cup {TextExample}
    /\ dtype = "float"
    /\ punct \in BOOLEAN
    /\ keep \in KeepOptions(KeepChars) \cup {ExampleKeep}
    /\ keep_num \in KeepOptions(KeepNums)
    /\ history = <<>>

NextText == CallToText

SpecText == InitText /\ [][NextText]_vars

(* to_specialChr alone, called again on what it returned *)

ChrAlphabet == {"a", "Z", "9", "!", " ", "U+00E9", "U+212A", "U+0663"}

\* pd.Series(['Hello123', 'World456', 'Python'])
ChrExample ==
    << Str(<<"H", "e", "l", "l", "o", "1", "2", "3">>),
       Str(<<"W", "o", "r", "l", "d", "4", "5", "6">>),
       Str(<<"P", "y", "t", "h", "o", "n">>) >>

InitChr ==
    /\ \/ IsInput(series, ChrAlphabet)
       \/ series \in SingleChars \cup {ChrExample}
    /\ dtype = "float"
    /\ punct = TRUE
    /\ keep = NoKeep
    /\ keep_num = NoKeep
    /\ history = <<>>

NextChr == CallToSpecialChr

SpecChr == InitChr /\ [][NextChr]_vars

(* the three functions on one series *)

Alphabet == {"1", "a", "!"}

Init ==
    /\ IsInput(series, Alphabet)
    /\ dtype \in {"int", "float"}
    /\ punct \in BOOLEAN
    /\ keep \in {NoKeep, KeepScalar(<<"!">>)}
    /\ keep_num \in {NoKeep, KeepList(<<1>>)}
    /\ history = <<>>

Next ==
    \/ CallToInteger
    \/ CallToText
    \/ CallToSpecialChr

Spec == Init /\ [][Next]_vars

----------------------------------------------------------------------------
(* What the claims speak of, stated apart from the functions above *)

AllText(ser) == \A i \in DOMAIN ser : IsStr(ser[i])

\* the first call made was of f
Made(f) == history # <<>> /\ history[1].op = f

First == history[1].out

Positions(x, S) == {i \in DOMAIN x : x[i] \in S}

Nth(P, j) == CHOOSE i \in P : Cardinality({k \in P : k <= i}) = j

\* x with exactly the characters of D deleted, the others in their order
Without(x, D) ==
    LET P == {i \in DOMAIN x : x[i] \notin D}
    IN  [j \in 1..Cardinality(P) |-> x[Nth(P, j)]]

\* the characters of x that are members of S, in their order
Only(x, S) ==
    LET P == Positions(x, S)
    IN  [j \in 1..Cardinality(P) |-> x[Nth(P, j)]]

Occurrences(x, c) == Cardinality(Positions(x, {c}))

RECURSIVE Horner(_, _)
\* the number a string of decimal digits writes, read from the left
Horner(ds, acc) ==
    IF ds = <<>> THEN acc
    ELSE Horner(Tail(ds), 10 * acc + DigitValue(Head(ds)))

----------------------------------------------------------------------------
(* to_integer *)

\* C1 as stated: to_integer deletes every character that is not one of
\* 0-9 and returns, at the same position, the number the remaining digits
\* write, cast to dtype.
C1_DeletesAllButAsciiDigits ==
    (Made("to_integer") /\ AllText(series) /\ First.status = "ok") =>
        /\ DOMAIN First.val = DOMAIN series
        /\ \A i \in DOMAIN series :
              First.val[i] =
                 [t |-> dtype,
                  n |-> Horner(Only(series[i].s, AsciiDigits), 0)]

\* C1 amended: to_integer deletes every character that is not a decimal
\* digit in the sense of the regex class \d (0-9 and the decimal digits of
\* other scripts) and returns, at the same position, the number the
\* remaining digits write, cast to dtype; the result is never negative and
\* the digits after a decimal point contribute to it.
C1_DeletesAllButDecimalDigits ==
    (Made("to_integer") /\ AllText(series) /\ First.status = "ok") =>
        /\ DOMAIN First.val = DOMAIN series
        /\ \A i \in DOMAIN series :
              /\ First.val[i] =
                    [t |-> dtype,
                     n |-> Horner(Only(series[i].s, ReDigit), 0)]
              /\ First.val[i].n >= 0

\* a call that returned, on text holding a decimal point between digits, a
\* minus sign or a digit of another script
C1_Witness ==
    /\ Made("to_integer") /\ AllText(series) /\ First.status = "ok"
    /\ \E i \in DOMAIN series :
          /\ Len(series[i].s) = 3
          /\ series[i].s[2] \in {".", "-", "U+0663"}
          /\ series[i].s[1] = "7" /\ series[i].s[3] = "0"

IntResult(ns) == Ok([i \in DOMAIN ns |-> [t |-> "int", n |-> ns[i]]])

\* C4: to_integer(['123.45', '456.78', '789.0'], dtype=int) returns
\* [123, 456, 789].
C4_ExampleGivesIntegerParts ==
    (Made("to_integer") /\ series = IntegerExample /\ dtype = "int") =>
        First = IntResult(<<123, 456, 789>>)

\* C8: when every element is text and one of them holds no decimal digit
\* (no character the class \d matches), to_integer ends in a conversion
\* error under int and under float, and returns no series.
C8_NoDigitsRaises ==
    (/\ Made("to_integer") /\ AllText(series)
     /\ \E i \in DOMAIN series : Positions(series[i].s, ReDigit) = {}) =>
        First.status = "error" /\ First.kind = "ValueError" /\ First.val = <<>>

\* a float call that raised although another element could be converted
C8_Witness ==
    /\ Made("to_integer") /\ AllText(series) /\ dtype = "float"
    /\ \E i, j \in DOMAIN series :
          /\ Positions(series[i].s, ReDigit) = {} /\ series[i].s # <<>>
          /\ Positions(series[j].s, ReDigit) # {}
    /\ First.status = "error"

----------------------------------------------------------------------------
(* to_text *)

\* the characters keep names, and the digits keep_num names
NamedChars(k) == {t[1] : t \in {u \in Range(k.v) : Len(u) = 1}}
NamedDigits(k) == {numbers[d + 1] : d \in Range(k.v) \cap 0..9}

\* the removal set of the claim
RemovalSet ==
    (((IF punct THEN Range(punctuation) ELSE {}) \cup AsciiDigits)
        \ NamedChars(keep)) \ NamedDigits(keep_num)

TextResult(xs) == Ok([i \in DOMAIN xs |-> Str(xs[i])])

\* C2: to_text deletes from each element exactly the characters of
\* R = (punctuation if punct) + (0-9) - (characters of keep) - (digits of
\* keep_num), and keeps every other character in its order.
C2_DeletesExactlyRemovalSet ==
    (Made("to_text") /\ AllText(series)) =>
        First = TextResult([i \in DOMAIN series |->
                                Without(series[i].s, RemovalSet)])

\* C5: to_text(['Hello, 123!', 'World456', 'Python'], punct=True,
\* keep=['o', '5'], keep_num=2) returns ['Holle', 'Wrd', 'Python'].
C5_ExampleGivesHolleWrdPython ==
    (/\ Made("to_text") /\ series = TextExample /\ punct
     /\ keep = ExampleKeep /\ keep_num = ExampleKeepNum) =>
        First = TextResult(<< <<"H", "o", "l", "l", "e">>,
                              <<"W", "r", "d">>,
                              <<"P", "y", "t", "h", "o", "n">> >>)

\* C10: a scalar keep_num d gives what the list [d] gives and keeps every
\* d; a scalar keep c that is one punctuation character gives what the
\* list [c] gives and keeps every c.
C10_ScalarIsOneElementList ==
    (Made("to_text") /\ AllText(series)) =>
        /\ (keep_num.kind = "scalar" /\ keep_num.v[1] \in 0..9) =>
              /\ First = to_text(series, punct, keep, KeepList(keep_num.v))
              /\ \A i \in DOMAIN series :
                    Occurrences(First.val[i].s, numbers[keep_num.v[1] + 1])
                        = Occurrences(series[i].s, numbers[keep_num.v[1] + 1])
        /\ (keep.kind = "scalar" /\ keep.v[1] \in {<<c>> : c \in Range(punctuation)}) =>
              /\ First = to_text(series, punct, KeepList(keep.v), keep_num)
              /\ \A i \in DOMAIN series :
                    Occurrences(First.val[i].s, keep.v[1][1])
                        = Occurrences(series[i].s, keep.v[1][1])

----------------------------------------------------------------------------
(* to_specialChr *)

\* C3 as stated: to_specialChr deletes exactly A-Z, a-z and 0-9; every other
\* character, every non-ASCII character included, is kept in its order.
C3_DeletesExactlyAsciiAlnum ==
    (Made("to_specialChr") /\ AllText(series)) =>
        First = TextResult([i \in DOMAIN series |->
                    Without(series[i].s, AsciiLetters \cup AsciiDigits)])

\* C3 amended: to_specialChr deletes exactly A-Z, a-z, 0-9 and the four
\* non-ASCII letters that match a-z when case is ignored (U+0130, U+0131,
\* U+017F, U+212A); every other character is kept in its order.
C3_DeletesAlnumAndCaseFoldLetters ==
    (Made("to_specialChr") /\ AllText(series)) =>
        First = TextResult([i \in DOMAIN series |->
                    Without(series[i].s,
                            AsciiLetters \cup AsciiDigits \cup CaseFoldLetters)])

\* a call on text that holds a letter to delete next to punctuation,
\* whitespace or a non-ASCII character to keep
C3_Witness ==
    /\ Made("to_specialChr") /\ AllText(series) /\ First.status = "ok"
    /\ \E i \in DOMAIN series :
          /\ Len(series[i].s) = 3
          /\ series[i].s[1] \in {"!", " ", "U+00E9", "U+0663"}
          /\ series[i].s[2] \in {"a", "Z", "9", "U+212A"}
          /\ First.val[i].s = <<series[i].s[1], series[i].s[3]>>

\* C6: to_specialChr(['Hello123', 'World456', 'Python']) returns
\* ['', '', 'Python'].
C6_ExampleKeepsPython ==
    (Made("to_specialChr") /\ series = ChrExample) =>
        First = TextResult(<< <<>>, <<>>, <<"P", "y", "t", "h", "o", "n">> >>)

\* C7: to_specialChr applied to what to_specialChr returned returns the
\* same series.
C7_Idempotent ==
    \A j \in DOMAIN history :
        (j > 1 /\ history[j].op = "to_specialChr"
               /\ history[j - 1].op = "to_specialChr") =>
            history[j].out = history[j - 1].out

\* a second call, after a first call that deleted a character and kept one
C7_Witness ==
    /\ Len(history) >= 2 /\ Made("to_specialChr")
    /\ history[2].out.status = "ok"
    /\ \E i \in DOMAIN series :
          /\ First.val[i].s # <<>>
          /\ Len(First.val[i].s) < Len(series[i].s)

----------------------------------------------------------------------------
(* Elements that are not text *)

HasNonText(ser) == \E i \in DOMAIN ser : ~IsStr(ser[i])

\* C9 as stated: each of the three functions, on a series holding an
\* element that is not text, ends in an error and returns no series.
C9_NonTextAlwaysRaises ==
    (history # <<>> /\ HasNonText(series)) => First.status = "error"

\* C9 amended: to_text, to_specialChr and to_integer with dtype int end in
\* an error and return no series on a series holding an element that is not
\* text; to_integer with dtype float can return a series, and then a
\* non-text element appears in it as NaN.
C9_NonTextRaisesExceptFloat ==
    (history # <<>> /\ HasNonText(series)) =>
        /\ (history[1].op \in {"to_text", "to_specialChr"} \/ dtype = "int") =>
              First.status = "error" /\ First.val = <<>>
        /\ First.status = "ok" =>
              \A i \in DOMAIN series :
                  ~IsStr(series[i]) => First.val[i].t = "nan"

\* a to_text call and a to_integer call with dtype int that raised on a
\* series of a text element and a null
C9_Witness ==
    /\ history # <<>> /\ HasNonText(series)
    /\ \E i \in DOMAIN series : IsStr(series[i]) /\ series[i].s = <<"1">>
    /\ First.status = "error"
    /\ history[1].op \in {"to_text", "to_integer"}

====
